---- MODULE Spec2Model ----
(**************************************************************************)
(* netbox_vcenter/background_tasks.py: the cached, background-refreshed   *)
(* vCenter inventory.                                                     *)
(*                                                                        *)
(*   get_virtual_machines      the read path (cache lookup, maybe submit) *)
(*   refresh_virtual_machines  the @job run by the rq workers             *)
(*   get_nic_vlan              VLAN resolution with its two memo caches   *)
(*   get_cache_key             the cache key of a ClusterVCenter          *)
(*                                                                        *)
(* Python values are tagged records, so that None, the string 'FAILED'    *)
(* and a stats dict can share the cache's value space as they do in the   *)
(* code.  Text that the code concatenates, encodes or searches is a       *)
(* sequence of one-character strings.                                     *)
(**************************************************************************)
EXTENDS Integers, Sequences, FiniteSets, TLC

VARIABLES
  now,        \* time.time(), in whole ticks
  cache,      \* cacheops cache: key -> entry (value, expiry) or NoEntry
  queue,      \* the rq queue of refresh_virtual_machines.delay(...) jobs
  jobs,       \* history: how many jobs were submitted so far
  run,        \* per worker: the refresh_virtual_machines invocation it executes
  ended,      \* the refresh_virtual_machines invocation that returned last
  ret,        \* the last get_virtual_machines call: argument, lookup, result
  endpoint,   \* the VM inventory the vCenter endpoints serve
  clusters,   \* the configured ClusterVCenter rows
  backoff,    \* history: per cluster, when the failure TTL of its last
              \* connection failure runs out (0: none yet, -1: it has run out)
  probe       \* get_cache_key applied to a pair of descriptors

vars == <<now, cache, queue, jobs, run, ended, ret, endpoint, clusters, backoff, probe>>

(* ---------------------------------------------------------------------- *)
(* Bounds and configuration                                               *)
(* ---------------------------------------------------------------------- *)
\* settings.PLUGINS_CONFIG['netbox_vcenter']['CACHE_TIMEOUT'], in ticks
CACHE_TIMEOUT == 2

\* settings.PLUGINS_CONFIG['netbox_vcenter']['CACHE_FAILURE_TIMEOUT'], in ticks
CACHE_FAILURE_TIMEOUT == 1

\* the clock stops here
MaxTime == 3

\* jobs submitted in one behaviour
MaxJobs == 2

Workers == {"w1", "w2"}

(* ---------------------------------------------------------------------- *)
(* Python values                                                          *)
(* ---------------------------------------------------------------------- *)
None == [none |-> TRUE]

PyStr(s) == [str |-> s]

PyInt(n) == [int |-> n]

PyBool(b) == [bool |-> b]

\* truthiness as `if x:` tests it
Truthy(v) == v # None /\ v # PyInt(0) /\ v # PyStr("") /\ v # PyBool(FALSE)

\* str(n) of an integer
PyStrOf(n) == PyStr(ToString(n))

(* ---------------------------------------------------------------------- *)
(* hashlib.sha256: FIPS 180-4 SHA-256 over a byte sequence.  A 32-bit     *)
(* word is kept as <<hi, lo>>, two 16-bit halves.                         *)
(* ---------------------------------------------------------------------- *)
Half == 2 ^ 16

RECURSIVE BitXor(_, _)
BitXor(a, b) ==
  IF a = 0 THEN b
  ELSE IF b = 0 THEN a
  ELSE ((a + b) % 2) + 2 * BitXor(a \div 2, b \div 2)

RECURSIVE BitAnd(_, _)
BitAnd(a, b) ==
  IF a = 0 \/ b = 0 THEN 0
  ELSE ((a % 2) * (b % 2)) + 2 * BitAnd(a \div 2, b \div 2)

WXor(x, y) == <<BitXor(x[1], y[1]), BitXor(x[2], y[2])>>

WAnd(x, y) == <<BitAnd(x[1], y[1]), BitAnd(x[2], y[2])>>

WNot(x) == <<Half - 1 - x[1], Half - 1 - x[2]>>

WAdd(x, y) ==
  LET lo == x[2] + y[2]
      hi == x[1] + y[1] + (lo \div Half)
  IN  <<hi % Half, lo % Half>>

Rotr(x, n) ==
  LET y == IF n >= 16 THEN <<x[2], x[1]>> ELSE x
      k == n % 16
  IN  IF k = 0 THEN y
      ELSE <<(y[1] \div (2 ^ k)) + (y[2] % (2 ^ k)) * (2 ^ (16 - k)),
             (y[2] \div (2 ^ k)) + (y[1] % (2 ^ k)) * (2 ^ (16 - k))>>

Shr(x, n) ==
  IF n >= 16 THEN <<0, x[1] \div (2 ^ (n - 16))>>
  ELSE <<x[1] \div (2 ^ n),
         (x[2] \div (2 ^ n)) + (x[1] % (2 ^ n)) * (2 ^ (16 - n))>>

Sha256K ==
  <<
    <<17034, 12184>>, <<28983, 17553>>, <<46528, 64463>>, <<59829, 56229>>,
    <<14678, 49755>>, <<23025, 4593>>, <<37439, 33444>>, <<43804, 24277>>,
    <<55303, 43672>>, <<4739, 23297>>, <<9265, 34238>>, <<21772, 32195>>,
    <<29374, 23924>>, <<32990, 45566>>, <<39900, 1703>>, <<49563, 61812>>,
    <<58523, 27073>>, <<61374, 18310>>, <<4033, 40390>>, <<9228, 41420>>,
    <<11753, 11375>>, <<19060, 33962>>, <<23728, 43484>>, <<30457, 35034>>,
    <<38974, 20818>>, <<43057, 50797>>, <<45059, 10184>>, <<48985, 32711>>,
    <<50912, 3059>>, <<54695, 37191>>, <<1738, 25425>>, <<5161, 10599>>,
    <<10167, 2693>>, <<11803, 8504>>, <<19756, 28156>>, <<21304, 3347>>,
    <<25866, 29524>>, <<30314, 2747>>, <<33218, 51502>>, <<37490, 11397>>,
    <<41663, 59553>>, <<43034, 26187>>, <<49739, 35696>>, <<51052, 20899>>,
    <<53650, 59417>>, <<54937, 1572>>, <<62478, 13701>>, <<4202, 41072>>,
    <<6564, 49430>>, <<7735, 27656>>, <<10056, 30540>>, <<13488, 48309>>,
    <<14620, 3251>>, <<20184, 43594>>, <<23452, 51791>>, <<26670, 28659>>,
    <<29839, 33518>>, <<30885, 25455>>, <<33992, 30740>>, <<36039, 520>>,
    <<37054, 65530>>, <<42064, 27883>>, <<48889, 41975>>, <<50801, 30962>>
  >>

Sha256H0 ==
  <<
    <<27145, 58983>>, <<47975, 44677>>, <<15470, 62322>>, <<42319, 62778>>,
    <<20750, 21119>>, <<39685, 26764>>, <<8067, 55723>>, <<23520, 52505>>
  >>

RECURSIVE Zeros(_)
Zeros(n) == IF n = 0 THEN <<>> ELSE <<0>> \o Zeros(n - 1)

\* message padding: 0x80, zeros up to 56 mod 64, then the bit length on 8 bytes
Sha256Pad(msg) ==
  LET n    == Len(msg)
      z    == (119 - n) % 64
      bits == n * 8
  IN  msg \o <<128>> \o Zeros(z) \o <<0, 0, 0, 0>>
          \o <<(bits \div 16777216) % 256, (bits \div 65536) % 256,
               (bits \div 256) % 256, bits % 256>>

\* the i-th (1-based) big-endian word of a 64-byte block starting at offset off
BlockWord(p, off, i) ==
  LET b == off + 4 * (i - 1)
  IN  <<p[b + 1] * 256 + p[b + 2], p[b + 3] * 256 + p[b + 4]>>

SmallSigma0(x) == WXor(WXor(Rotr(x, 7), Rotr(x, 18)), Shr(x, 3))

SmallSigma1(x) == WXor(WXor(Rotr(x, 17), Rotr(x, 19)), Shr(x, 10))

BigSigma0(x) == WXor(WXor(Rotr(x, 2), Rotr(x, 13)), Rotr(x, 22))

BigSigma1(x) == WXor(WXor(Rotr(x, 6), Rotr(x, 11)), Rotr(x, 25))

Ch(x, y, z) == WXor(WAnd(x, y), WAnd(WNot(x), z))

Maj(x, y, z) == WXor(WXor(WAnd(x, y), WAnd(x, z)), WAnd(y, z))

RECURSIVE Schedule(_)
Schedule(w) ==
  IF Len(w) = 64 THEN w
  ELSE LET i == Len(w) + 1
           x == WAdd(WAdd(SmallSigma1(w[i - 2]), w[i - 7]),
                     WAdd(SmallSigma0(w[i - 15]), w[i - 16]))
       IN  Schedule(Append(w, x))

RECURSIVE Rounds(_, _, _)
Rounds(s, w, i) ==
  IF i > 64 THEN s
  ELSE LET t1 == WAdd(WAdd(WAdd(s[8], BigSigma1(s[5])), Ch(s[5], s[6], s[7])),
                      WAdd(Sha256K[i], w[i]))
           t2 == WAdd(BigSigma0(s[1]), Maj(s[1], s[2], s[3]))
           n  == <<WAdd(t1, t2), s[1], s[2], s[3], WAdd(s[4], t1), s[5], s[6], s[7]>>
       IN  IF Len(n) = 8 THEN Rounds(n, w, i + 1) ELSE n

Compress(h, p, off) ==
  LET w == Schedule([i \in 1..16 |-> BlockWord(p, off, i)])
      s == Rounds(h, w, 1)
  IN  [i \in 1..8 |-> WAdd(h[i], s[i])]

RECURSIVE Blocks(_, _, _)
Blocks(h, p, off) ==
  IF off >= Len(p) THEN h ELSE Blocks(Compress(h, p, off), p, off + 64)

\* the digest as 8 words
Sha256(msg) == Blocks(Sha256H0, Sha256Pad(msg), 0)

\* hexdigest(): 64 hexadecimal digits, given as their values 0..15
HexDigest(msg) ==
  LET h == Sha256(msg)
  IN  [i \in 1..64 |->
         LET word == h[((i - 1) \div 8) + 1]
             half == word[(((i - 1) % 8) \div 4) + 1]
         IN  (half \div (16 ^ (3 - ((i - 1) % 4)))) % 16]

(* ---------------------------------------------------------------------- *)
(* ClusterVCenter descriptors and get_cache_key                           *)
(* ---------------------------------------------------------------------- *)
Tab == "\t"

ClusterVCenter(server, username, password, validate) ==
  [server |-> server, username |-> username, password |-> password,
   validate_certificate |-> validate]

Servers == { <<"v", "c", "1">>, <<"v", "c", "2">>, <<"v", "c", "1", Tab>> }

Usernames == { <<"a", "d", "m", "i", "n">>, <<"r", "o", "o", "t">>,
               <<Tab, "a", "d", "m", "i", "n">> }

Passwords == { <<"p", "w">>, <<"p", "w", "2">> }

\* every descriptor get_cache_key is probed with
Descriptors ==
  { ClusterVCenter(s, u, p, TRUE) : s \in Servers, u \in Usernames, p \in Passwords }

\* the configured clusters: vc1/admin/pw, vc2/admin/pw, vc2/root/pw
VC1 == ClusterVCenter(<<"v", "c", "1">>, <<"a", "d", "m", "i", "n">>, <<"p", "w">>, TRUE)

VC2 == ClusterVCenter(<<"v", "c", "2">>, <<"a", "d", "m", "i", "n">>, <<"p", "w">>, FALSE)

VC3 == ClusterVCenter(<<"v", "c", "2">>, <<"r", "o", "o", "t">>, <<"p", "w">>, TRUE)

Targets == {VC1, VC2, VC3}

\* ord() of the characters in use (all ASCII)
Ord ==
  [c \in {Tab, "1", "2", "a", "c", "d", "i", "m", "n", "o", "p", "r", "t", "v", "w"} |->
     CASE c = Tab -> 9
       [] c = "1" -> 49
       [] c = "2" -> 50
       [] c = "a" -> 97
       [] c = "c" -> 99
       [] c = "d" -> 100
       [] c = "i" -> 105
       [] c = "m" -> 109
       [] c = "n" -> 110
       [] c = "o" -> 111
       [] c = "p" -> 112
       [] c = "r" -> 114
       [] c = "t" -> 116
       [] c = "v" -> 118
       [] c = "w" -> 119]

\* str.encode('utf-8'): a code point below 128 is one byte, below 2048 two
RECURSIVE Utf8(_)
Utf8(s) ==
  IF s = <<>> THEN <<>>
  ELSE LET cp == Ord[Head(s)]
       IN  (IF cp < 128 THEN <<cp>>
            ELSE <<192 + (cp \div 64), 128 + (cp % 64)>>) \o Utf8(Tail(s))

HexDigits ==
  <<"0", "1", "2", "3", "4", "5", "6", "7", "8", "9", "a", "b", "c", "d", "e", "f">>

\* f'{vcenter.server}\t{vcenter.username}\t{vcenter.password}'
raw_key(vcenter) ==
  vcenter.server \o <<Tab>> \o vcenter.username \o <<Tab>> \o vcenter.password

\* a negative Python index i into a sequence of length n, 1-based
PyIndex(n, i) == n + i + 1

\* hashlib.sha256(raw_key.encode('utf-8')).hexdigest()[-16]: ONE hex digit,
\* the 16th from the end (the code indexes, it does not slice)
get_cache_key(vcenter) ==
  LET digest == HexDigest(Utf8(raw_key(vcenter)))
  IN  HexDigits[digest[PyIndex(Len(digest), -16)] + 1]

\* the keys of the descriptors in use, each derived once
KeyOf == [v \in Descriptors \cup Targets |-> get_cache_key(v)]

Keys == { KeyOf[v] : v \in Targets }

(* ---------------------------------------------------------------------- *)
(* The remote endpoint: switches, hosts, virtual machines                 *)
(* ---------------------------------------------------------------------- *)
\* an inventory holds at most this many virtual machines
MaxVMs == 3

\* content.dvSwitchManager.QueryDvsByUuid(uuid): raises, or returns None or a
\* switch; a switch maps its portgroup keys to the configured VLAN id
QueryDvsByUuid(uuid) ==
  CASE uuid = "dvs-1"    -> [raised |-> FALSE,
                             value  |-> [uuid |-> "dvs-1",
                                         portgroups |-> [k \in {"P1", "P2"} |->
                                                           IF k = "P1" THEN 42 ELSE 7]]]
    [] uuid = "dvs-none" -> [raised |-> FALSE, value |-> None]
    [] OTHER             -> [raised |-> TRUE, value |-> None]

\* dvs.LookupDvPortGroup(key): the portgroup, or None when the switch has none
LookupDvPortGroup(dvs, key) ==
  IF key \in DOMAIN dvs.portgroups
    THEN [config |-> [defaultPortConfig |-> [vlan |-> [vlanId |-> dvs.portgroups[key]]]]]
    ELSE None

\* vm_host.config.network.portgroup: the host's standard portgroups, in order
HostPortgroups(host) ==
  IF host = "host-1"
    THEN << [key |-> <<"k", "-", "n", "1", "0">>, spec |-> [vlanId |-> 10]],
            [key |-> <<"k", "-", "n", "1">>,      spec |-> [vlanId |-> 1]],
            [key |-> <<"k", "-", "m", "1">>,      spec |-> [vlanId |-> 5]] >>
    ELSE << [key |-> <<"k", "-", "m", "1">>,      spec |-> [vlanId |-> 6]] >>

\* backings of a VirtualEthernetCard
DvsBacking(uuid, key) ==
  [attrs |-> {"port"}, port |-> [portgroupKey |-> key, switchUuid |-> uuid]]

NetworkBacking(name) == [attrs |-> {"network"}, network |-> [name |-> name]]

\* a backing with neither a port nor a network (an opaque network)
OpaqueBacking == [attrs |-> {"opaqueNetworkId"}]

Nic(label, backing) ==
  [class |-> "VirtualEthernetCard", deviceInfo |-> [label |-> label],
   macAddress |-> "00:50:56:00:00:0" \o label, backing |-> backing]

Disk(kb) == [class |-> "VirtualDisk", capacityInKB |-> kb]

\* state "ok": every property reads; "noconfig": vm.config is None;
\* "gone": every property read raises, vm.name included
VirtualMachine(name, state, host, power, cpus, mem, device) ==
  [name |-> name, state |-> state,
   runtime |-> [host |-> host, powerState |-> power],
   config  |-> [hardware |-> [numCPU |-> cpus, memoryMB |-> mem, device |-> device]]]

OneGB == 2 ^ 20

VMPool ==
  { VirtualMachine("web", "ok", "host-1", PyStr("poweredOn"), PyInt(2), PyInt(4096),
                   <<Disk(OneGB), Disk(2 * OneGB), Nic("1", DvsBacking("dvs-1", "P1"))>>),
    VirtualMachine("web", "ok", "host-1", PyStr("poweredOff"), PyInt(1), PyInt(0),
                   <<Disk(OneGB + (OneGB \div 2)), Nic("1", NetworkBacking(<<"n", "1">>))>>),
    VirtualMachine("db", "noconfig", "host-1", PyStr("poweredOn"), None, None, <<>>),
    VirtualMachine("db", "gone", "host-2", None, None, None, <<>>),
    VirtualMachine("app", "ok", "host-2", None, PyInt(4), PyInt(512),
                   <<Nic("1", DvsBacking("dvs-down", "P1")),
                     Nic("2", DvsBacking("dvs-down", "P2")),
                     Nic("3", DvsBacking("dvs-none", "P1"))>>),
    VirtualMachine("lb", "ok", "host-2", PyStr("poweredOn"), PyInt(1), PyInt(256),
                   <<Nic("1", DvsBacking("dvs-1", "P2")),
                     Nic("2", DvsBacking("dvs-1", "P9"))>>),
    VirtualMachine("nas", "ok", "host-1", PyStr("poweredOn"), PyInt(1), PyInt(256),
                   <<Nic("1", NetworkBacking(<<"n", "2">>)), Nic("2", OpaqueBacking)>>),
    VirtualMachine("gw", "ok", "host-1", PyStr("poweredOn"), PyInt(1), PyInt(256),
                   <<Nic("1", DvsBacking("dvs-1", "P1")), Nic("2", DvsBacking("dvs-1", "P2")),
                     Nic("3", NetworkBacking(<<"n", "1", "0">>)),
                     Nic("4", NetworkBacking(<<"m", "1">>)),
                     Nic("5", NetworkBacking(<<"n", "2">>))>>) }

RECURSIVE SeqsUpTo(_, _)
SeqsUpTo(S, n) ==
  IF n = 0 THEN { <<>> }
  ELSE LET shorter == SeqsUpTo(S, n - 1)
       IN  shorter \cup { Append(s, x) : s \in shorter, x \in S }

\* what an endpoint may serve
Inventories == SeqsUpTo(VMPool, MaxVMs)

\* the inventories the refresh protocol is explored with
DeployedInventories ==
  { s \in Inventories :
      \/ /\ Len(s) = 1
         /\ s[1].name = "web" /\ s[1].runtime.powerState = PyStr("poweredOn")
      \/ /\ Len(s) = 2
         /\ s[1].state = "noconfig"
         /\ s[2].name = "gw" }

(* ---------------------------------------------------------------------- *)
(* get_nic_vlan and the per-VM statistics of refresh_virtual_machines     *)
(* ---------------------------------------------------------------------- *)
\* d[k] = v on a dict
Put(d, k, v) == [x \in DOMAIN d \cup {k} |-> IF x = k THEN v ELSE d[x]]

\* `needle in hay` on text
Contains(hay, needle) ==
  \E i \in 0..(Len(hay) - Len(needle)) : SubSeq(hay, i + 1, i + Len(needle)) = needle

\* dvs_cache = {}, portgroup_cache = {}; queries logs the remote subqueries made
NewMemo == [dvs_cache |-> <<>>, portgroup_cache |-> <<>>, queries |-> <<>>]

\* for p in pgs: if portgroup in p.key: vlan_id = str(p.spec.vlanId)  (no break)
RECURSIVE scan_portgroups(_, _, _)
scan_portgroups(pgs, portgroup, vlan_id) ==
  IF pgs = <<>> THEN vlan_id
  ELSE scan_portgroups(Tail(pgs), portgroup,
                       IF Contains(Head(pgs).key, portgroup)
                         THEN PyStrOf(Head(pgs).spec.vlanId)
                         ELSE vlan_id)

\* the result: raised (an exception left the function), vlan_id (the return
\* value otherwise), memo (the two caches as the call left them)
get_nic_vlan(memo, vm, dev) ==
  LET dev_backing == dev.backing
  IN  IF "port" \in dev_backing.attrs
        THEN LET port_group_key == dev_backing.port.portgroupKey
                 dvs_uuid == dev_backing.port.switchUuid
                 hit   == dvs_uuid \in DOMAIN memo.dvs_cache
                 query == QueryDvsByUuid(dvs_uuid)
                 dvs   == IF hit THEN memo.dvs_cache[dvs_uuid]
                          ELSE IF query.raised THEN None ELSE query.value
                 memo1 == IF hit THEN memo
                          ELSE [memo EXCEPT
                                  !.queries = Append(@, <<"QueryDvsByUuid", dvs_uuid>>),
                                  !.dvs_cache = IF query.raised THEN @
                                                ELSE Put(@, dvs_uuid, query.value)]
             IN  IF Truthy(dvs)
                   THEN LET pg_obj == LookupDvPortGroup(dvs, port_group_key)
                        IN  IF pg_obj = None
                              \* pg_obj.config on None: AttributeError
                              THEN [raised |-> TRUE, vlan_id |-> None, memo |-> memo1]
                              ELSE [raised |-> FALSE,
                                    vlan_id |-> PyStrOf(pg_obj.config.defaultPortConfig.vlan.vlanId),
                                    memo |-> memo1]
                   ELSE [raised |-> FALSE, vlan_id |-> None, memo |-> memo1]
      ELSE IF "network" \notin dev_backing.attrs
        \* dev.backing.network: AttributeError
        THEN [raised |-> TRUE, vlan_id |-> None, memo |-> memo]
      ELSE LET portgroup == dev_backing.network.name
               vm_host == vm.runtime.host
               hit   == vm_host \in DOMAIN memo.portgroup_cache
               pgs   == IF hit THEN memo.portgroup_cache[vm_host] ELSE HostPortgroups(vm_host)
               memo1 == IF hit THEN memo
                        ELSE [memo EXCEPT
                                !.queries = Append(@, <<"portgroup", vm_host>>),
                                !.portgroup_cache = Put(@, vm_host, pgs)]
           IN  [raised |-> FALSE, vlan_id |-> scan_portgroups(pgs, portgroup, None),
                memo |-> memo1]

RECURSIVE SumKB(_)
SumKB(disks) == IF disks = <<>> THEN 0 ELSE Head(disks).capacityInKB + SumKB(Tail(disks))

\* round(n / d): to nearest, ties to even
PyRound(n, d) ==
  LET q == n \div d
      r == n % d
  IN  IF 2 * r < d THEN q
      ELSE IF 2 * r > d THEN q + 1
      ELSE IF q % 2 = 0 THEN q ELSE q + 1

\* the NIC loop over vm.config.hardware.device
RECURSIVE collect_nics(_, _, _, _)
collect_nics(memo, vm, devices, nics) ==
  IF devices = <<>> THEN [raised |-> FALSE, nics |-> nics, memo |-> memo]
  ELSE LET dev == Head(devices)
       IN  IF dev.class = "VirtualEthernetCard"
             THEN LET r == get_nic_vlan(memo, vm, dev)
                  IN  IF r.raised
                        THEN [raised |-> TRUE, nics |-> nics, memo |-> r.memo]
                        ELSE collect_nics(r.memo, vm, Tail(devices),
                                          Append(nics, [label |-> dev.deviceInfo.label,
                                                        mac_address |-> dev.macAddress,
                                                        vlan |-> r.vlan_id]))
             ELSE collect_nics(memo, vm, Tail(devices), nics)

\* the body of the per-VM try: raised, or the vm_stats dict
vm_stats_of(memo, vm) ==
  IF vm.state # "ok"
    \* "gone": vm.runtime raises; "noconfig": vm.config.hardware on None raises
    THEN [raised |-> TRUE, vm_stats |-> None, memo |-> memo]
    ELSE LET hw == vm.config.hardware
             disk_devices == SelectSeq(hw.device, LAMBDA d : d.class = "VirtualDisk")
             r == collect_nics(memo, vm, hw.device, <<>>)
             stats == [power  |-> None,
                       vcpus  |-> IF Truthy(hw.numCPU) THEN hw.numCPU ELSE None,
                       memory |-> IF Truthy(hw.memoryMB) THEN hw.memoryMB ELSE None,
                       disk   |-> IF disk_devices # <<>>
                                    THEN PyInt(PyRound(SumKB(disk_devices), 1048576))
                                    ELSE None,
                       nics   |-> r.nics]
         IN  [raised   |-> r.raised,
              vm_stats |-> IF Truthy(vm.runtime.powerState)
                             THEN stats @@ ("powered_on" :>
                                              PyBool(vm.runtime.powerState = PyStr("poweredOn")))
                             ELSE stats,
              memo     |-> r.memo]

\* the loop `for vm in vms`: raised is an exception that left the loop
RECURSIVE collect_vms(_, _)
collect_vms(vms, acc) ==
  IF vms = <<>> THEN acc
  ELSE LET vm == Head(vms)
           r  == vm_stats_of(acc.memo, vm)
       IN  IF r.raised
             THEN IF vm.state = "gone"
                    \* the handler formats vm.name, which raises again
                    THEN [acc EXCEPT !.raised = TRUE, !.memo = r.memo]
                    \* logged; continue
                    ELSE collect_vms(Tail(vms), [acc EXCEPT !.memo = r.memo])
             ELSE collect_vms(Tail(vms),
                              [acc EXCEPT !.memo = r.memo,
                                          !.vms = Put(@, vm.name, r.vm_stats)])

\* list(view_mgr.view) of the container view over vim.VirtualMachine
get_objects_of_type(content) == content.vms

\* lines 116-162 on the enumerated list
collect_all(vms) == collect_vms(vms, [raised |-> FALSE, vms |-> <<>>, memo |-> NewMemo])

(* ---------------------------------------------------------------------- *)
(* The cacheops cache                                                     *)
(* ---------------------------------------------------------------------- *)
FAILED == PyStr("FAILED")

NoEntry == [absent |-> TRUE]

\* a stats dict, as opposed to None and the cookie
IsSnapshotValue(v) == "timestamp" \in DOMAIN v

\* what cache.get raises when the key holds nothing (or has expired)
CacheMiss == [exception |-> "CacheMiss"]

\* cache.get(key): the value, or CacheMiss
cache_get(c, key) == IF c[key] = NoEntry THEN CacheMiss ELSE c[key].value

\* the arguments of one cache.set(key, value, timeout)
CacheWrite(key, value, timeout) == [key |-> key, value |-> value, timeout |-> timeout]

\* cache.set applied; by: the cluster whose run wrote (history)
cache_set(c, write, by) ==
  [c EXCEPT ![write.key] =
     [value |-> write.value, expires |-> now + write.timeout, by |-> by]]

\* entries whose timeout has run out at time t are gone
Expire(c, t) ==
  [k \in DOMAIN c |-> IF c[k] # NoEntry /\ c[k].expires <= t THEN NoEntry ELSE c[k]]

(* ---------------------------------------------------------------------- *)
(* get_virtual_machines                                                   *)
(* ---------------------------------------------------------------------- *)
Job(vcenter, force) == [vcenter |-> vcenter, force |-> force]

NoLookup == [skipped |-> TRUE]

\* variant: the test `if not vcenter` is left out and the cache is read anyway
gvm_lookup_unguarded(vcenter) ==
  cache_get(cache, KeyOf[IF Truthy(vcenter) THEN vcenter ELSE VC1])

\* what the call's cache.get gave (NoLookup: the call returned before it)
gvm_lookup(vcenter) ==
  IF ~Truthy(vcenter) THEN NoLookup ELSE cache_get(cache, KeyOf[vcenter])

\* variant: the failure cookie is treated like a miss and the poll retried
gvm_submits_retry_on_failed(vcenter, seen) ==
  IF Truthy(vcenter) /\ seen \in {CacheMiss, FAILED} THEN <<Job(vcenter, FALSE)>> ELSE <<>>

\* variant: the .delay(...) call is left out
gvm_submits_nothing(vcenter, seen) == <<>>

\* variant: the .delay(...) call is made twice
gvm_submits_twice(vcenter, seen) ==
  IF Truthy(vcenter) /\ seen = CacheMiss
    THEN <<Job(vcenter, FALSE), Job(vcenter, FALSE)>>
    ELSE <<>>

\* the jobs the call submits with refresh_virtual_machines.delay
gvm_submits(vcenter, seen) ==
  IF Truthy(vcenter) /\ seen = CacheMiss THEN <<Job(vcenter, FALSE)>> ELSE <<>>

\* variant: the test `vms != 'FAILED'` inverted
gvm_returns_inverted(vcenter, seen) ==
  IF ~Truthy(vcenter) THEN None
  ELSE IF seen = CacheMiss THEN None
  ELSE IF seen = FAILED THEN seen
  ELSE None

\* variant: the cached value returned without the test for 'FAILED'
gvm_returns_unchecked(vcenter, seen) ==
  IF ~Truthy(vcenter) THEN None
  ELSE IF seen = CacheMiss THEN None
  ELSE seen

\* the call's return value
gvm_returns(vcenter, seen) ==
  IF ~Truthy(vcenter) THEN None
  ELSE IF seen = CacheMiss THEN None
  ELSE IF seen # FAILED THEN seen
  ELSE None

\* variant: on a miss the call also caches the failure cookie as a marker
gvm_answer_marks_cache(vcenter, seen) ==
  LET subs == gvm_submits(vcenter, seen)
  IN  /\ jobs + Len(subs) <= MaxJobs
      /\ queue' = queue \o subs
      /\ jobs' = jobs + Len(subs)
      /\ ret' = [called |-> TRUE, vcenter |-> vcenter, seen |-> seen,
                 backoff |-> "none", value |-> gvm_returns(vcenter, seen),
                 submitted |-> subs]
      /\ cache' = IF seen = CacheMiss
                    THEN cache_set(cache, CacheWrite(KeyOf[vcenter], FAILED,
                                                     CACHE_FAILURE_TIMEOUT), vcenter)
                    ELSE cache
      /\ UNCHANGED <<now, run, ended, endpoint, clusters, backoff, probe>>

\* lines 24-32 once cache.get has answered with seen
gvm_answer(vcenter, seen) ==
  LET subs == gvm_submits(vcenter, seen)
  IN  /\ jobs + Len(subs) <= MaxJobs
      /\ queue' = queue \o subs
      /\ jobs' = jobs + Len(subs)
      /\ ret' = [called |-> TRUE, vcenter |-> vcenter, seen |-> seen,
                 backoff |-> IF ~Truthy(vcenter) \/ backoff[vcenter] = 0 THEN "none"
                             ELSE IF backoff[vcenter] > now THEN "pending"
                             ELSE "elapsed",
                 value |-> gvm_returns(vcenter, seen), submitted |-> subs]
      /\ UNCHANGED <<now, cache, run, ended, endpoint, clusters, backoff, probe>>

get_virtual_machines(vcenter) == gvm_answer(vcenter, gvm_lookup(vcenter))

\* a caller elsewhere asks for a forced poll: refresh_virtual_machines.delay(vcenter, force=True)
force_refresh(vcenter) ==
  /\ jobs < MaxJobs
  /\ queue' = Append(queue, Job(vcenter, TRUE))
  /\ jobs' = jobs + 1
  /\ UNCHANGED <<now, cache, run, ended, ret, endpoint, clusters, backoff, probe>>

(* ---------------------------------------------------------------------- *)
(* refresh_virtual_machines, one step per blocking point                  *)
(* ---------------------------------------------------------------------- *)
\* a worker with no invocation
Idle ==
  [pc |-> "idle", vcenter |-> None, force |-> FALSE, vcenter_cache_key |-> None,
   service_instance |-> None,
   all_stats |-> None, result |-> None,
   \* history of the invocation: what its cache check saw, where an exception
   \* came from, its connect and Disconnect calls, its cache.set calls, the
   \* remote subqueries of its VLAN resolution
   checked |-> NoLookup, raised |-> "no", connects |-> 0, disconnects |-> 0,
   writes |-> <<>>, queries |-> <<>>]

\* variant: the check for the failure cookie is left out
refresh_decision_ignores_cookie(force, cached) ==
  IF cached = CacheMiss THEN "poll"
  ELSE IF ~force /\ cached # FAILED THEN "cached"
  ELSE "poll"

\* variant: the early returns are left out, every job polls
refresh_decision_always_polls(force, cached) == "poll"

\* lines 94-102: what the initial cache check decides
refresh_decision(force, cached) ==
  IF cached = CacheMiss THEN "poll"
  ELSE IF ~force /\ cached = FAILED THEN "skip"
  ELSE IF ~force THEN "cached"
  ELSE "poll"

\* lines 91-102 of the invocation of job on worker w, vcenter_cache_key being
\* its key: on an early return the invocation ends here
refresh_cache_check(w, job, vcenter_cache_key) ==
  /\ LET cached == cache_get(cache, vcenter_cache_key)
         decision == refresh_decision(job.force, cached)
         started == [Idle EXCEPT !.vcenter = job.vcenter, !.force = job.force,
                                 !.vcenter_cache_key = vcenter_cache_key,
                                 !.checked = cached]
     IN  CASE decision = "skip" ->
                /\ ended' = [started EXCEPT !.pc = "done"]
                /\ UNCHANGED run
           [] decision = "cached" ->
                /\ ended' = [started EXCEPT !.pc = "done", !.result = cached]
                /\ UNCHANGED run
           [] OTHER ->
                /\ run' = [run EXCEPT ![w] = [started EXCEPT !.pc = "connect"]]
                /\ UNCHANGED ended
  /\ queue' = Tail(queue)
  /\ UNCHANGED <<now, cache, jobs, ret, endpoint, clusters, backoff, probe>>

\* lines 87-102: a worker takes the next job, derives its key (line 89) and
\* checks the cache
refresh_check(w) ==
  /\ run[w].pc = "idle"
  /\ queue # <<>>
  /\ refresh_cache_check(w, Head(queue), KeyOf[Head(queue).vcenter])

\* lines 109-112: the session, by connection mode
connect_mode(vcenter) ==
  IF vcenter.validate_certificate THEN "Connect" ELSE "ConnectNoSSL"

\* lines 104-112: connect.Connect / connect.ConnectNoSSL returns or raises
refresh_connect(w) ==
  /\ run[w].pc = "connect"
  /\ \E raised \in BOOLEAN :
       run' = [run EXCEPT ![w] =
                 IF raised
                   THEN [@ EXCEPT !.pc = "except", !.raised = "connect",
                                  !.connects = @ + 1]
                   ELSE [@ EXCEPT !.pc = "collect",
                                  !.service_instance =
                                     [session |-> connect_mode(run[w].vcenter)],
                                  !.connects = @ + 1]]
  /\ UNCHANGED <<now, cache, queue, jobs, ended, ret, endpoint, clusters, backoff, probe>>

\* lines 114-162: RetrieveContent, the container view, the loop over the VMs
refresh_collect(w) ==
  /\ run[w].pc = "collect"
  /\ \E fault \in {"none", "RetrieveContent", "CreateContainerView"} :
       LET r == collect_all(get_objects_of_type(endpoint))
       IN  run' = [run EXCEPT ![w] =
                     IF fault # "none" THEN [@ EXCEPT !.pc = "except", !.raised = fault]
                     ELSE IF r.raised
                       THEN [@ EXCEPT !.pc = "except", !.raised = "vm.name",
                                      !.queries = r.memo.queries]
                     ELSE [@ EXCEPT !.pc = "store", !.queries = r.memo.queries,
                                    !.all_stats = [timestamp |-> now, vms |-> r.vms]]]
  /\ UNCHANGED <<now, cache, queue, jobs, ended, ret, endpoint, clusters, backoff, probe>>

\* variant: the success path caches the cookie instead of all_stats
success_write_cookie(r) == CacheWrite(r.vcenter_cache_key, FAILED, CACHE_TIMEOUT)

\* line 165: cache.set(vcenter_cache_key, all_stats, config['CACHE_TIMEOUT'])
success_write(r) == CacheWrite(r.vcenter_cache_key, r.all_stats, CACHE_TIMEOUT)

\* variant: the cookie is cached with the success timeout
failure_write_long(r) == CacheWrite(r.vcenter_cache_key, FAILED, CACHE_TIMEOUT)

\* line 172: cache.set(vcenter_cache_key, 'FAILED', config['CACHE_FAILURE_TIMEOUT'])
failure_write(r) == CacheWrite(r.vcenter_cache_key, FAILED, CACHE_FAILURE_TIMEOUT)

\* variant: all_stats is returned without being cached
refresh_store_unsaved(w) ==
  /\ run[w].pc = "store"
  /\ run' = [run EXCEPT ![w] = [@ EXCEPT !.pc = "finally", !.result = run[w].all_stats]]
  /\ UNCHANGED <<now, cache, queue, jobs, ended, ret, endpoint, clusters, backoff, probe>>

\* lines 165-167: the Snapshot is cached; return all_stats
refresh_store(w) ==
  /\ run[w].pc = "store"
  /\ cache' = cache_set(cache, success_write(run[w]), run[w].vcenter)
  /\ run' = [run EXCEPT ![w] = [@ EXCEPT !.pc = "finally", !.result = run[w].all_stats,
                                         !.writes = Append(@, success_write(run[w]))]]
  /\ UNCHANGED <<now, queue, jobs, ended, ret, endpoint, clusters, backoff, probe>>

\* lines 168-172: the failure cookie is cached; the function falls off its end
refresh_except(w) ==
  /\ run[w].pc = "except"
  /\ cache' = cache_set(cache, failure_write(run[w]), run[w].vcenter)
  /\ run' = [run EXCEPT ![w] = [@ EXCEPT !.pc = "finally", !.result = None,
                                         !.writes = Append(@, failure_write(run[w]))]]
  /\ backoff' = IF run[w].raised = "connect"
                  THEN [backoff EXCEPT ![run[w].vcenter] = now + failure_write(run[w]).timeout]
                  ELSE backoff
  /\ UNCHANGED <<now, queue, jobs, ended, ret, endpoint, clusters, probe>>

\* variant: Disconnect at the end of the success path instead of in a finally
refresh_finally_success_only(w) ==
  /\ run[w].pc = "finally"
  /\ ended' = [run[w] EXCEPT !.pc = "done",
                             !.disconnects = IF run[w].result # None THEN @ + 1 ELSE @]
  /\ run' = [run EXCEPT ![w] = Idle]
  /\ UNCHANGED <<now, cache, queue, jobs, ret, endpoint, clusters, backoff, probe>>

\* lines 173-175: if service_instance: connect.Disconnect(service_instance);
\* the invocation ends and the worker is free again
refresh_finally(w) ==
  /\ run[w].pc = "finally"
  /\ ended' = [run[w] EXCEPT !.pc = "done",
                             !.disconnects = IF Truthy(run[w].service_instance)
                                               THEN @ + 1 ELSE @]
  /\ run' = [run EXCEPT ![w] = Idle]
  /\ UNCHANGED <<now, cache, queue, jobs, ret, endpoint, clusters, backoff, probe>>

\* time passes: cache entries and the pending backoff windows run out
Tick ==
  /\ now < MaxTime
  /\ now' = now + 1
  /\ cache' = Expire(cache, now + 1)
  /\ backoff' = [t \in DOMAIN backoff |->
                   IF backoff[t] > 0 /\ backoff[t] <= now + 1 THEN -1 ELSE backoff[t]]
  /\ UNCHANGED <<queue, jobs, run, ended, ret, endpoint, clusters, probe>>

(* ---------------------------------------------------------------------- *)
(* Specifications                                                         *)
(* ---------------------------------------------------------------------- *)
NoCall ==
  [called |-> FALSE, vcenter |-> None, seen |-> NoLookup, backoff |-> "none",
   value |-> None, submitted |-> <<>>]

NoProbe == [done |-> FALSE]

InitCommon ==
  /\ now = 0
  /\ cache = [k \in Keys |-> NoEntry]
  /\ run = [w \in Workers |-> Idle]
  /\ ended = Idle
  /\ ret = NoCall
  /\ backoff = [t \in Targets |-> 0]

\* one invocation of refresh_virtual_machines, step by step, on worker w
refresh_virtual_machines(w) ==
  \/ refresh_check(w)
  \/ refresh_connect(w)
  \/ refresh_collect(w)
  \/ refresh_store(w)
  \/ refresh_except(w)
  \/ refresh_finally(w)

\* the refresh protocol with one worker: callers (also with no cluster), forced
\* refreshes, the clock
Init ==
  /\ InitCommon
  /\ queue = <<>>
  /\ jobs = 0
  /\ endpoint \in [vms : DeployedInventories]
  /\ clusters = {VC1}
  /\ probe = NoProbe

Next ==
  \/ \E vcenter \in clusters \cup {None} : get_virtual_machines(vcenter)
  \/ \E vcenter \in clusters : force_refresh(vcenter)
  \/ refresh_virtual_machines("w1")
  \/ Tick

Spec == Init /\ [][Next]_vars

\* the refresh protocol with two workers running duplicate jobs concurrently
InitRace ==
  /\ InitCommon
  /\ queue = <<>>
  /\ jobs = 0
  /\ endpoint \in [vms : { s \in DeployedInventories : Len(s) = 1 }]
  /\ clusters = {VC1}
  /\ probe = NoProbe

NextRace ==
  \/ \E vcenter \in clusters : get_virtual_machines(vcenter)
  \/ \E w \in Workers : refresh_virtual_machines(w)
  \/ Tick

SpecRace == InitRace /\ [][NextRace]_vars

\* one forced collection of one cluster against every inventory
InitCollect ==
  /\ InitCommon
  /\ queue = <<Job(VC1, TRUE)>>
  /\ jobs = MaxJobs
  /\ endpoint \in [vms : Inventories]
  /\ clusters = {VC1}
  /\ probe = NoProbe

NextCollect ==
  \/ refresh_virtual_machines("w1")
  \/ get_virtual_machines(VC1)

SpecCollect == InitCollect /\ [][NextCollect]_vars

\* the refresh protocol for two clusters on the same server that differ in
\* the username
InitShared ==
  /\ InitCommon
  /\ queue = <<>>
  /\ jobs = 0
  /\ endpoint \in [vms : { s \in DeployedInventories : Len(s) = 1 }]
  /\ clusters = {VC2, VC3}
  /\ probe = NoProbe

NextShared ==
  \/ \E vcenter \in clusters : get_virtual_machines(vcenter)
  \/ refresh_virtual_machines("w1")
  \/ Tick

SpecShared == InitShared /\ [][NextShared]_vars

\* get_cache_key on pairs of descriptors
derive_keys ==
  /\ ~probe.done
  /\ probe' = [probe EXCEPT !.done = TRUE,
                            !.key = <<KeyOf[probe.vcenter[1]], KeyOf[probe.vcenter[2]]>>,
                            !.raw = <<raw_key(probe.vcenter[1]), raw_key(probe.vcenter[2])>>]
  /\ UNCHANGED <<now, cache, queue, jobs, run, ended, ret, endpoint, clusters, backoff>>

InitKey ==
  /\ InitCommon
  /\ queue = <<>>
  /\ jobs = 0
  /\ endpoint = [vms |-> <<>>]
  /\ clusters = {}
  /\ probe \in [done : {FALSE}, vcenter : Descriptors \X Descriptors,
                key : {<<>>}, raw : {<<>>}]

NextKey == derive_keys

SpecKey == InitKey /\ [][NextKey]_vars

\* time passes on a clock read relative to the present: instead of now moving
\* on, every deadline comes one tick closer, so that time has no end.  The
\* timestamp inside a Snapshot, which no line reads, stays as written.
Tock ==
  /\ cache' = [k \in DOMAIN cache |->
                 IF cache[k] = NoEntry \/ cache[k].expires <= now + 1 THEN NoEntry
                 ELSE [cache[k] EXCEPT !.expires = @ - 1]]
  /\ backoff' = [t \in DOMAIN backoff |->
                   IF backoff[t] <= 0 THEN backoff[t]
                   ELSE IF backoff[t] <= now + 1 THEN -1
                   ELSE backoff[t] - 1]
  /\ UNCHANGED <<now, queue, jobs, run, ended, ret, endpoint, clusters, probe>>

\* the jobs that wait or run
Outstanding == Len(queue) + Cardinality({ w \in Workers : run[w].pc # "idle" })

\* the queue forgets the jobs that have ended, so that jobs bounds the
\* outstanding jobs and not all jobs ever submitted
Retire ==
  /\ jobs > Outstanding
  /\ jobs' = Outstanding
  /\ UNCHANGED <<now, cache, queue, run, ended, ret, endpoint, clusters, backoff, probe>>

\* a call that returns a Snapshot
gvm_hit(vcenter) == get_virtual_machines(vcenter) /\ IsSnapshotValue(ret'.value)

\* the refresh protocol without end: callers keep calling (and call while a
\* Snapshot is cached, if one is cached again and again), the workers run
\* every job, time passes
InitLive ==
  /\ InitCommon
  /\ queue = <<>>
  /\ jobs = 0
  /\ endpoint \in [vms : { s \in DeployedInventories : Len(s) = 1 }]
  /\ clusters = {VC1}
  /\ probe = NoProbe

NextLive ==
  \/ get_virtual_machines(VC1)
  \/ \E w \in Workers : refresh_virtual_machines(w)
  \/ Tock
  \/ Retire

SpecLive ==
  /\ InitLive /\ [][NextLive]_vars
  /\ WF_vars(get_virtual_machines(VC1))
  /\ SF_vars(gvm_hit(VC1))
  /\ \A w \in Workers : WF_vars(refresh_virtual_machines(w))
  /\ WF_vars(Tock)
  /\ WF_vars(Retire)

(* ---------------------------------------------------------------------- *)
(* Properties                                                             *)
(* ---------------------------------------------------------------------- *)
IsSnapshot(v) == IsSnapshotValue(v)

\* the invocation that returned last came this far
Ended == ended.pc = "done"

\* C1, as stated: after a collection failed while connecting, every
\* get_virtual_machines call for that cluster made before the failure TTL
\* expires returns None and submits no job.
C1_BackoffWindow ==
  ret.backoff = "pending" => ret.value = None /\ ret.submitted = <<>>

\* C1, amended: a get_virtual_machines call that finds the failure cookie
\* still cached (not expired, not overwritten by another collection) returns
\* None and submits no job.
C1_BackoffWhileCookie ==
  ret.seen = FAILED => ret.value = None /\ ret.submitted = <<>>

\* a call inside the failure window of a connection failure found the cookie
C1_Witness ==
  /\ ret.backoff = "pending"
  /\ ret.seen = FAILED
  /\ ret.value = None

\* C2: a get_virtual_machines call with a cluster that observes a miss submits
\* exactly one job, for that cluster and not forced, and returns None.
C2_MissSubmitsOnce ==
  (Truthy(ret.vcenter) /\ ret.seen = CacheMiss)
    => ret.submitted = <<Job(ret.vcenter, FALSE)>> /\ ret.value = None

\* the first call after the failure window of a connection failure ran out
C2_Witness ==
  /\ ret.backoff = "elapsed"
  /\ ret.seen = CacheMiss
  /\ Len(ret.submitted) = 1
  /\ queue # <<>>

\* C3: when the cache holds a Snapshot under the cluster's key, the call
\* returns exactly that Snapshot and submits no job.
C3_HitReturnsSnapshot ==
  IsSnapshot(ret.seen) => ret.value = ret.seen /\ ret.submitted = <<>>

C3_Witness ==
  /\ IsSnapshot(ret.seen)
  /\ ret.value = ret.seen
  /\ DOMAIN ret.value.vms # {}

\* a Snapshot as the success path builds it from the endpoint's inventory
ProducedSnapshot(v) ==
  LET r == collect_all(get_objects_of_type(endpoint))
  IN  /\ ~r.raised
      /\ \E ts \in 0..now : v = [timestamp |-> ts, vms |-> r.vms]

\* C4: get_virtual_machines returns None or a Snapshot a collection stored on
\* its success path, never the failure cookie.
C4_NoneOrSnapshot ==
  /\ ret.value # FAILED
  /\ ret.value = None \/ ProducedSnapshot(ret.value)

\* a call returned the Snapshot that the invocation that ended last stored
C4_Witness ==
  /\ Ended
  /\ ended.raised = "no"
  /\ Len(ended.writes) = 1
  /\ IsSnapshot(ret.value)
  /\ ret.value = ended.writes[1].value

\* C5: an invocation in which an exception left the connect, enumerate or
\* per-VM phase has cached the failure cookie with the failure timeout, cached
\* no Snapshot, and returned None.
C5_FailureCachesCookie ==
  (Ended /\ ended.raised # "no")
    => /\ ended.writes =
            <<CacheWrite(KeyOf[ended.vcenter], FAILED, CACHE_FAILURE_TIMEOUT)>>
       /\ ended.result = None
       /\ cache[KeyOf[ended.vcenter]].value = FAILED
       /\ cache[KeyOf[ended.vcenter]].expires = now + CACHE_FAILURE_TIMEOUT

\* the exception came out of the loop over the VMs
C5_Witness ==
  /\ Ended
  /\ ended.raised = "vm.name"
  /\ ended.result = None

\* the per-VM try of this VM ends without an exception
Extracted(vm) == ~vm_stats_of(NewMemo, vm).raised

\* the position of the last extracted VM called name
LastNamed(vms, name) ==
  CHOOSE i \in 1..Len(vms) :
    /\ vms[i].name = name /\ Extracted(vms[i])
    /\ \A j \in (i + 1)..Len(vms) : ~(vms[j].name = name /\ Extracted(vms[j]))

\* a collection that completes caches, with the success timeout, a Snapshot
\* whose vms keys are exactly the names of the VMs whose extraction raised
\* nothing, each name holding the stats of the last such VM; get_virtual_machines
\* then returns it.
CompletedSnapshotContent ==
  (Ended /\ ended.connects = 1 /\ ended.raised = "no")
    => LET vms == endpoint.vms
           snapshot == ended.result
       IN  /\ IsSnapshot(snapshot)
           /\ ended.writes = <<CacheWrite(KeyOf[ended.vcenter], snapshot, CACHE_TIMEOUT)>>
           /\ DOMAIN snapshot.vms =
                { vms[i].name : i \in { j \in 1..Len(vms) : Extracted(vms[j]) } }
           /\ \A name \in DOMAIN snapshot.vms :
                snapshot.vms[name] =
                  vm_stats_of(NewMemo, vms[LastNamed(vms, name)]).vm_stats
           /\ cache[KeyOf[ended.vcenter]].value = snapshot
           /\ IsSnapshot(ret.seen) => ret.value = snapshot

\* C6: the Snapshot of a completed collection holds exactly the VMs whose
\* extraction raised nothing, the last one of a name winning, and a VM whose
\* extraction raises is skipped without aborting the poll: no invocation that
\* enumerated the VMs ends on the failure path because of a VM.
C6_SkipsRaisingVM ==
  /\ CompletedSnapshotContent
  /\ Ended => ended.raised # "vm.name"

\* C7: an invocation that established a connection has called Disconnect
\* exactly once when it ends, whether it cached a Snapshot or the cookie; one
\* that never connected has called it not at all; none calls it before its end.
C7_DisconnectOnce ==
  /\ Ended => ended.disconnects = (IF ended.service_instance # None THEN 1 ELSE 0)
  /\ \A w \in Workers : run[w].disconnects = 0

\* a poll that failed after connecting was disconnected once
C7_Witness ==
  /\ Ended
  /\ ended.service_instance # None
  /\ ended.raised # "no"
  /\ ended.disconnects = 1

\* C8: an invocation calls connect exactly when it was forced or its cache
\* check was a miss; not forced, it returns None on the cookie and the cached
\* Snapshot on a Snapshot, without connecting and without writing the cache.
C8_ConnectIffForcedOrMiss ==
  /\ Ended =>
       LET polls == ended.force \/ ended.checked = CacheMiss
       IN  /\ ended.connects = (IF polls THEN 1 ELSE 0)
           /\ ~polls => /\ ended.writes = <<>>
                        /\ ended.service_instance = None
                        /\ ended.result = (IF ended.checked = FAILED THEN None
                                           ELSE ended.checked)
  /\ \A w \in Workers :
       run[w].pc # "idle" => run[w].force \/ run[w].checked = CacheMiss

\* a job that was not forced found a Snapshot and returned it
C8_Witness ==
  /\ Ended
  /\ ~ended.force
  /\ IsSnapshot(ended.checked)
  /\ ended.result = ended.checked
  /\ ended.connects = 0

\* server, username and password of the two descriptors agree
SameIdentity(a, b) ==
  a.server = b.server /\ a.username = b.username /\ a.password = b.password

\* C9: get_cache_key gives equal descriptors equal keys, and descriptors that
\* differ in server, username or password different keys.
C9_KeyInjective ==
  probe.done => (SameIdentity(probe.vcenter[1], probe.vcenter[2])
                   <=> probe.key[1] = probe.key[2])

\* the VirtualEthernetCard devices of a VM, in order
NicsOf(vm) ==
  SelectSeq(vm.config.hardware.device, LAMBDA d : d.class = "VirtualEthernetCard")

\* the endpoint gives no VLAN for this NIC: the switch query raises or knows
\* no such switch, no portgroup matches, or the backing is of neither kind
Unresolvable(vm, dev) ==
  IF "port" \in dev.backing.attrs
    THEN LET q == QueryDvsByUuid(dev.backing.port.switchUuid)
         IN  \/ q.raised
             \/ q.value = None
             \/ LookupDvPortGroup(q.value, dev.backing.port.portgroupKey) = None
    ELSE IF "network" \in dev.backing.attrs
      THEN \A i \in 1..Len(HostPortgroups(vm.runtime.host)) :
             ~Contains(HostPortgroups(vm.runtime.host)[i].key, dev.backing.network.name)
      ELSE TRUE

\* C10: a VM whose other properties read is in the Snapshot with every NIC
\* recorded, a NIC whose VLAN cannot be resolved with vlan None.
C10_UnresolvedVlanKeepsVM ==
  (Ended /\ ended.connects = 1 /\ ended.raised = "no")
    => \A i \in 1..Len(endpoint.vms) :
         LET vm == endpoint.vms[i]
             snapshot == ended.result
         IN  vm.state = "ok"
               => /\ vm.name \in DOMAIN snapshot.vms
                  /\ (\A j \in (i + 1)..Len(endpoint.vms) : endpoint.vms[j].name # vm.name)
                       => /\ Len(snapshot.vms[vm.name].nics) = Len(NicsOf(vm))
                          /\ \A n \in 1..Len(NicsOf(vm)) :
                               Unresolvable(vm, NicsOf(vm)[n])
                                 => snapshot.vms[vm.name].nics[n].vlan = None

\* a step that is a get_virtual_machines call
IsCall ==
  \/ \E vcenter \in clusters : get_virtual_machines(vcenter)
  \/ get_virtual_machines(None)

\* C11: a get_virtual_machines call, whatever the cache holds and also with no
\* cluster, leaves the cache and every invocation of refresh_virtual_machines
\* (so every connection) as they are; all it may do is append one job.
C11_ReadPathFrame ==
  [][IsCall => /\ cache' = cache
               /\ run' = run
               /\ ended' = ended
               /\ \/ queue' = queue
                  \/ \E vcenter \in clusters : queue' = Append(queue, Job(vcenter, FALSE))]_vars

\* a call that submitted a job came while a worker was polling
C11_Witness ==
  /\ ret.called
  /\ ret.seen = CacheMiss
  /\ Len(ret.submitted) = 1
  /\ run["w1"].pc = "collect"
  /\ queue # <<>>

\* C12: a call with no cluster returns None, has not read the cache and has
\* submitted no job.
C12_NoTarget ==
  (ret.called /\ ~Truthy(ret.vcenter))
    => ret.seen = NoLookup /\ ret.value = None /\ ret.submitted = <<>>

\* a call with no cluster came while a Snapshot was cached and a job queued
C12_Witness ==
  /\ ret.called
  /\ ret.vcenter = None
  /\ \E k \in Keys : cache[k] # NoEntry /\ IsSnapshot(cache[k].value)
  /\ queue # <<>>

\* the jobs for this cluster, not forced, that wait in the queue
QueuedFor(vcenter) ==
  Cardinality({ i \in 1..Len(queue) : queue[i] = Job(vcenter, FALSE) })

\* the invocations for this cluster, not forced, that have not yet written the cache
PollingFor(vcenter) ==
  Cardinality({ w \in Workers : /\ run[w].pc # "idle"
                                /\ run[w].vcenter = vcenter
                                /\ ~run[w].force
                                /\ run[w].writes = <<>> })

\* C13, as stated: between a miss and the next cache write at most one job is
\* submitted for a cluster, whatever the number of callers: never are two
\* jobs for it outstanding that have not written the cache.
C13_SingleTask ==
  \A vcenter \in clusters : QueuedFor(vcenter) + PollingFor(vcenter) <= 1

\* C13, amended: every job is submitted by a get_virtual_machines call that
\* found a miss under the cluster's key, one job per such call (not one per
\* cluster).
C13_TaskPerMissCall ==
  [][jobs' # jobs =>
       /\ jobs' = jobs + 1
       /\ ret'.called
       /\ ret'.seen = CacheMiss
       /\ cache[KeyOf[ret'.vcenter]] = NoEntry
       /\ queue' = Append(queue, Job(ret'.vcenter, FALSE))]_vars

\* two callers found the same miss: two jobs for the cluster wait in the queue
C13_Witness ==
  /\ Len(queue) = 2
  /\ queue[1] = queue[2]
  /\ ~queue[1].force
  /\ cache[KeyOf[queue[1].vcenter]] = NoEntry

\* the key holds a Snapshot that is still valid at time t
FreshSnapshot(c, k, t) ==
  /\ c[k] # NoEntry
  /\ IsSnapshot(c[k].value)
  /\ c[k].expires > t

\* C14, as stated: without forced jobs, a cached Snapshot stays cached until
\* its timeout runs out; no job, a concurrent duplicate included, replaces it
\* with the failure cookie.
C14_SnapshotKept ==
  [][\A k \in DOMAIN cache :
       FreshSnapshot(cache, k, now') =>
         cache'[k] # NoEntry /\ IsSnapshot(cache'[k].value)]_vars

\* C14, amended: a cached Snapshot that has not expired is replaced only by an
\* invocation whose own cache check was a miss, that is, one that passed its
\* check before the Snapshot was written.
C14_ReplacedOnlyByOverlap ==
  [][\A k \in DOMAIN cache :
       (FreshSnapshot(cache, k, now') /\ cache'[k] # cache[k]) =>
         \E w \in Workers : /\ run[w].pc # "idle"
                             /\ run[w].vcenter_cache_key = k
                             /\ run[w].checked = CacheMiss
                             /\ Len(run'[w].writes) = Len(run[w].writes) + 1]_vars

\* the Snapshot the last-ended invocation stored is still within its timeout,
\* and a duplicate has replaced it with the failure cookie
C14_Witness ==
  /\ Ended
  /\ ended.raised = "no"
  /\ ended.connects = 1
  /\ now < ended.result.timestamp + CACHE_TIMEOUT
  /\ cache[ended.vcenter_cache_key] # NoEntry
  /\ cache[ended.vcenter_cache_key].value = FAILED

\* a step in which no invocation runs into an exception
NoFault == \A w \in Workers : run'[w].raised \in {"no", run[w].raised}

\* the cache holds a Snapshot for the cluster and the last call returned it
Converged ==
  /\ FreshSnapshot(cache, KeyOf[VC1], now)
  /\ ret.called
  /\ ret.value = cache[KeyOf[VC1]].value

\* C15: if from some time on no invocation runs into an exception (the
\* endpoint stays reachable), then, callers calling, workers running every job
\* and time passing, the cache comes to hold a Snapshot for the cluster and a
\* call returns it, however duplicate and concurrent invocations interleave.
C15_EventuallySnapshot ==
  (<>[][NoFault]_vars) => <>Converged

\* a call returned the cached Snapshot after the window of a failed connect
\* had run out
C15_Witness ==
  /\ Converged
  /\ backoff[VC1] = -1

\* the value is what the cache holds under the cluster's key, and an
\* invocation for another cluster wrote it
ForeignEntry(vcenter, value) ==
  LET entry == cache[KeyOf[vcenter]]
  IN  entry # NoEntry /\ entry.value = value /\ entry.by # vcenter

\* C16: clusters that differ in server, username or password do not see each
\* other's cache entries: what a get_virtual_machines call for a cluster reads
\* (and so returns, or takes as a reason not to submit), and what the cache
\* check of an invocation for it reads (and takes as a reason not to poll), was
\* never written by an invocation for another cluster.
C16_TargetIsolation ==
  /\ (ret.called /\ Truthy(ret.vcenter) /\ ret.seen # CacheMiss)
       => ~ForeignEntry(ret.vcenter, ret.seen)
  /\ (Ended /\ ended.checked # CacheMiss)
       => ~ForeignEntry(ended.vcenter, ended.checked)

\* C17: the string get_cache_key hashes determines server, username and
\* password: descriptors with the same raw key agree in all three, also when a
\* field contains the tab that separates them.
C17_RawKeyUnambiguous ==
  probe.done => (probe.raw[1] = probe.raw[2]
                   => SameIdentity(probe.vcenter[1], probe.vcenter[2]))

\* no remote subquery occurs twice in the log
NoRepeat(queries) ==
  \A i, j \in 1..Len(queries) : i < j => queries[i] # queries[j]

\* C18: within one invocation every switch uuid is queried at most once, also
\* when the query fails, and every host's portgroups are fetched at most once.
C18_QueryOnce ==
  (Ended /\ ended.connects = 1) => NoRepeat(ended.queries)

\* the VLAN id of the first portgroup, in list order, whose key contains name
FirstMatch(pgs, name) ==
  LET hits == { i \in 1..Len(pgs) : Contains(pgs[i].key, name) }
  IN  IF hits = {} THEN None
      ELSE PyStrOf(pgs[CHOOSE i \in hits : \A j \in hits : i <= j].spec.vlanId)

\* C19: a NIC on a standard switch is recorded with the VLAN id, as a string,
\* of the first portgroup of the VM's host whose key contains the network
\* name.
C19_FirstMatchWins ==
  (Ended /\ ended.connects = 1 /\ ended.raised = "no")
    => \A i \in 1..Len(endpoint.vms) :
         LET vm == endpoint.vms[i]
         IN  (/\ Extracted(vm)
              /\ \A j \in (i + 1)..Len(endpoint.vms) : endpoint.vms[j].name # vm.name)
               => \A n \in 1..Len(NicsOf(vm)) :
                    "network" \in NicsOf(vm)[n].backing.attrs
                      => ended.result.vms[vm.name].nics[n].vlan =
                           FirstMatch(HostPortgroups(vm.runtime.host),
                                      NicsOf(vm)[n].backing.network.name)

\* C20: an invocation that went past its cache check (forced, or a miss) has
\* written the cache exactly once under the cluster's key when it ends: all_stats
\* with the success timeout if nothing was raised, the cookie with the failure
\* timeout otherwise; one that returned early has written nothing; none has
\* written twice at any time.
C20_OneWritePerPoll ==
  /\ Ended =>
       IF ended.force \/ ended.checked = CacheMiss
         THEN /\ Len(ended.writes) = 1
              /\ ended.writes[1].key = KeyOf[ended.vcenter]
              /\ IF ended.raised = "no"
                   THEN /\ IsSnapshot(ended.writes[1].value)
                        /\ ended.writes[1].timeout = CACHE_TIMEOUT
                   ELSE /\ ended.writes[1].value = FAILED
                        /\ ended.writes[1].timeout = CACHE_FAILURE_TIMEOUT
         ELSE ended.writes = <<>>
  /\ \A w \in Workers : Len(run[w].writes) <= 1

\* a forced invocation found a Snapshot cached, failed, and wrote the cookie
C20_Witness ==
  /\ Ended
  /\ ended.force
  /\ IsSnapshot(ended.checked)
  /\ Len(ended.writes) = 1
  /\ ended.writes[1].value = FAILED

\* every state has the shape the formulas read
TypeOK ==
  /\ now \in 0..MaxTime
  /\ DOMAIN cache = Keys
  /\ Len(queue) <= MaxJobs
  /\ \A w \in Workers : run[w].pc \in {"idle", "connect", "collect", "store", "except",
                                       "finally"}
  /\ ended.pc \in {"idle", "done"}
====
